---- MODULE Spec2Model ----
(***************************************************************************)
(* Model of the structured logging subsystem of the microservice template  *)
(* (src/src/log), of the two log formatters, of the application lifespan   *)
(* (src/src/main.py) and of the /pong route (src/src/api/pingpong).        *)
(*                                                                         *)
(* Spec        the Logger Assembler and the Sink Registry                  *)
(* SpecExternal  a third-party logger shares the service logger's sinks    *)
(* SpecThreads   two threads inside get_logger() / setup_logging()         *)
(* SpecApp     the running application: requests, export, shutdown         *)
(* SpecFormat  the two formatters applied to bounded log records           *)
(* SpecPong    the /pong handler applied to bounded messages               *)
(***************************************************************************)
EXTENDS Integers, Sequences, FiniteSets, TLC

VARIABLES
    log_settings,     \* log/config.py: the LogSettings instance of the process
    otel_installed,   \* whether the optional opentelemetry SDK can be imported
    loggers,          \* logging.getLogger(name): level, propagate, handlers (a list reference)
    handlerLists,     \* the list objects that logger.handlers refer to
    OTLP_HANDLERS,    \* logger.py:7, the Sink Registry (a dict keyed by service name)
    pipelines,        \* exporter pipelines constructed so far, per service name
    logQueue,         \* records buffered in each BatchLogRecordProcessor
    spanQueue,        \* spans buffered in the tracer provider's BatchSpanProcessor
    nextId,           \* identity of the next object created by setup_logging
    unregistered,     \* LoggingHandler objects that are not (or no longer) in the registry
    threads,          \* SpecThreads: where each thread is in get_logger / setup_logging
    phase,            \* "import" | "serving" | "stopped" (main.py lifespan)
    lastOp,           \* the operation that ran last, its arguments and what it emitted
    record,           \* SpecFormat: the log record handed to a formatter
    formatted,        \* SpecFormat: what the formatter did with it
    pongRequest,      \* SpecPong: the PingRequest body
    pongResponse      \* SpecPong: the handler's outcome

vars == <<log_settings, otel_installed, loggers, handlerLists, OTLP_HANDLERS,
          pipelines, logQueue, spanQueue, nextId, unregistered, threads, phase, lastOp,
          record, formatted, pongRequest, pongResponse>>

logVars == <<log_settings, otel_installed, loggers, handlerLists, OTLP_HANDLERS,
             pipelines, logQueue, spanQueue, nextId, unregistered, threads, phase, lastOp>>

fmtVars == <<record, formatted>>

pongVars == <<pongRequest, pongResponse>>

----------------------------------------------------------------------------
(* Bounds *)

\* objects (handlers, filters) that setup_logging creates in a behaviour
MaxObjects == 4

\* records a BatchLogRecordProcessor buffers before Log is held back (Spec)
MaxQueue == 1

\* nesting depth of the structured values of a log record (SpecFormat)
MaxDepth == 1

\* extra fields of a log record (SpecFormat)
MaxExtras == 1

\* characters of a /pong message (SpecPong)
MaxMsgLen == 5

\* records and spans the batch processors buffer before the application's
\* requests are held back (SpecApp)
MaxBacklog == 3

----------------------------------------------------------------------------
(* Python's logging levels *)

NOTSET == 0

DEBUG == 10

INFO == 20

WARNING == 30

ERROR == 40

CRITICAL == 50

Levels == {DEBUG, INFO, WARNING, ERROR, CRITICAL}

StdLevelNames == {"DEBUG", "INFO", "WARNING", "ERROR", "CRITICAL"}

\* console level names a caller may pass: the five names, a lower-case
\* spelling and a name that is no level
LevelNames == StdLevelNames \cup {"info", "verbose"}

\* remote level names a caller may pass
OtlpLevelNames == {"error", "verbose"}

\* str.upper() on the level names above
Upper(s) ==
    CASE s = "info" -> "INFO"
      [] s = "error" -> "ERROR"
      [] s = "verbose" -> "VERBOSE"
      [] OTHER -> s

\* logger.py:145-151, the log_levels dict
log_levels ==
    [n \in StdLevelNames |->
        CASE n = "CRITICAL" -> CRITICAL
          [] n = "ERROR" -> ERROR
          [] n = "WARNING" -> WARNING
          [] n = "INFO" -> INFO
          [] n = "DEBUG" -> DEBUG]

\* getattr(logging, <name>.upper(), default)
LoggingAttr(name, default) ==
    IF Upper(name) \in StdLevelNames THEN log_levels[Upper(name)] ELSE default

\* log_levels.get(level.upper(), logging.NOTSET)
OtlpLevel(name) ==
    IF Upper(name) \in DOMAIN log_levels THEN log_levels[Upper(name)] ELSE NOTSET

----------------------------------------------------------------------------
(* Names, endpoints *)

None == "None"

ServiceNames == {"microservice"}

ExternalNames == {"uvicorn.error"}

LoggerNames == ServiceNames \cup ExternalNames

Endpoints == {None, "http://a:4318", "http://b:4318/"}

\* `if otlp_endpoint:`
Truthy(ep) == ep # None /\ ep # ""

\* otlp_endpoint.rstrip("/")
RStripSlash(ep) ==
    CASE ep = "http://b:4318/" -> "http://b:4318"
      [] OTHER -> ep

\* f"{endpoint}/v1/logs"
ExportUrl(ep) == <<RStripSlash(ep), "/v1/logs">>

----------------------------------------------------------------------------
(* The logging objects.  A logging state s is a record of the mutable parts: *)
(* loggers, handlerLists, OTLP_HANDLERS, unregistered, pipelines, logQueue, *)
(* nextId                                                                   *)

\* a logger that logging.getLogger(name) has just created
FreshLogger(name) == [level |-> NOTSET, propagate |-> TRUE, handlers |-> name]

EmptyDict == [k \in {} |-> 0]

FreshState ==
    [loggers |-> [n \in LoggerNames |-> FreshLogger(n)],
     handlerLists |-> [n \in LoggerNames |-> <<>>],
     OTLP_HANDLERS |-> EmptyDict,
     unregistered |-> EmptyDict,
     pipelines |-> [n \in ServiceNames |-> 0],
     logQueue |-> [n \in ServiceNames |-> 0],
     nextId |-> 1]

\* logger.handlers
Handlers(s, name) == s.handlerLists[s.loggers[name].handlers]

InSeq(seq, x) == \E i \in 1..Len(seq) : seq[i] = x

\* Filterer.addFilter: `if not (filter in self.filters): self.filters.append(filter)`
AddFilter(filters, f) == IF InSeq(filters, f) THEN filters ELSE Append(filters, f)

\* Logger.addHandler: `if not (hdlr in self.handlers): self.handlers.append(hdlr)`
AddHandler(handlers, h) == IF InSeq(handlers, h) THEN handlers ELSE Append(handlers, h)

\* the LoggingHandler object that a remote entry of a handler list refers
\* to: the registry's object of its service name, unless it is an object that
\* was built and not stored, or was replaced in the registry
RemoteHandler(s, h) ==
    IF h.id \in DOMAIN s.unregistered THEN s.unregistered[h.id] ELSE s.OTLP_HANDLERS[h.key]

\* the threshold and the filters of a handler of a logger's list; a remote
\* handler is an object of its own, a console handler lives in the list
HandlerLevel(s, h) ==
    IF h.kind = "otlp" THEN RemoteHandler(s, h).level ELSE h.level

HandlerFilters(s, h) ==
    IF h.kind = "otlp" THEN RemoteHandler(s, h).filters ELSE h.filters

HandlerFormatter(s, h) ==
    IF h.kind = "otlp" THEN RemoteHandler(s, h).formatter ELSE h.formatter

\* the Trace-Context Enricher as a logging filter: it adds trace_id/span_id
\* to the record and lets every record through
OTelTraceFilterAccepts == TRUE

\* Logger.getEffectiveLevel: a logger without a level inherits the root
\* logger's WARNING
EffectiveLevel(s, name) ==
    IF s.loggers[name].level # NOTSET THEN s.loggers[name].level ELSE WARNING

\* Logger.callHandlers and Handler.handle for one record of level levelno:
\* per handler, in list order, whether the record passed the handler's
\* threshold, how many enricher filters ran on it and whether it was written
Delivery(s, name, levelno) ==
    LET hs == Handlers(s, name) IN
    [levelno |-> levelno,
     propagated |-> s.loggers[name].propagate,
     sinks |-> [i \in 1..Len(hs) |->
        LET passed == levelno >= HandlerLevel(s, hs[i]) IN
        [kind |-> hs[i].kind,
         key |-> IF hs[i].kind = "otlp" THEN hs[i].key ELSE None,
         enriched |-> IF passed THEN Len(HandlerFilters(s, hs[i])) ELSE 0,
         formatter |-> HandlerFormatter(s, hs[i]),
         written |-> passed /\ OTelTraceFilterAccepts]]]

\* how many sinks of a delivery handed the record to the pipeline of `key`
Enqueued(d, key) ==
    Cardinality({i \in 1..Len(d.sinks) :
        d.sinks[i].kind = "otlp" /\ d.sinks[i].key = key /\ d.sinks[i].written})

\* logger.log(levelno, ...): [s |-> the state after, emitted |-> the deliveries]
Emit(s, name, levelno) ==
    IF levelno >= EffectiveLevel(s, name)
    THEN LET d == Delivery(s, name, levelno) IN
         [s |-> [s EXCEPT !.logQueue =
                    [k \in ServiceNames |-> s.logQueue[k] + Enqueued(d, k)]],
          emitted |-> <<d>>]
    ELSE [s |-> s, emitted |-> <<>>]

----------------------------------------------------------------------------
(* logger.py *)

\* (mutant) the existing handlers are not cleared
ClearHandlers_Keep(handlers) == handlers

\* logger.handlers.clear()
ClearHandlers(handlers) == <<>>

\* (mutant) the console handler keeps the level it was created with
ConsoleLevel_Unset(console_level) == NOTSET

\* console_handler.setLevel(getattr(logging, console_level.upper(), logging.DEBUG))
ConsoleLevel(console_level) == LoggingAttr(console_level, DEBUG)

\* (mutant) the registry is never consulted
InRegistry_Never(s, service_name) == FALSE

\* `if service_name in _OTLP_HANDLERS:`
InRegistry(s, service_name) == service_name \in DOMAIN s.OTLP_HANDLERS

\* (mutant) get_logger() sets the logger up on every call
NeedsSetup_Always(s, name) == TRUE

\* `if not logger.handlers:`
NeedsSetup(s, name) == Handlers(s, name) = <<>>

DictPut(d, k, v) == [x \in DOMAIN d \cup {k} |-> IF x = k THEN v ELSE d[x]]

\* _get_otlp_logging_handler(service_name, level, otlp_endpoint):
\* [s |-> state after, handler |-> id of the handler returned (0: None),
\*  raised |-> whether a constructor raised]
_get_otlp_logging_handler(s, service_name, level, otlp_endpoint, installed, ctorFails) ==
    IF InRegistry(s, service_name)
    THEN [s |-> s, handler |-> s.OTLP_HANDLERS[service_name].id, raised |-> FALSE]
    ELSE IF ~installed
    THEN [s |-> s, handler |-> 0, raised |-> FALSE]
    ELSE IF ctorFails
    THEN [s |-> s, handler |-> 0, raised |-> TRUE]
    ELSE LET handler == [id |-> s.nextId,
                         endpoint |-> ExportUrl(otlp_endpoint),
                         resource |-> service_name,
                         level |-> OtlpLevel(level),
                         filters |-> <<>>,
                         formatter |-> None]
         IN [s |-> [s EXCEPT !.OTLP_HANDLERS = DictPut(@, service_name, handler),
                             !.pipelines[service_name] = @ + 1,
                             !.nextId = @ + 1],
             handler |-> handler.id,
             raised |-> FALSE]

\* setup_logging(service_name, console_level, otlp_level, otlp_endpoint):
\* [s |-> state after, emitted |-> the records it logged itself,
\*  handler |-> what _get_otlp_logging_handler returned, raised |-> whether it raised]
setup_logging(s, service_name, console_level, otlp_level, otlp_endpoint, installed, ctorFails) ==
    LET list == s.loggers[service_name].handlers
        fid == s.nextId
        console_handler == [kind |-> "console",
                            id |-> fid,
                            level |-> ConsoleLevel(console_level),
                            formatter |-> "ColoredConsoleFormatter",
                            filters |-> AddFilter(<<>>, fid)]
        s1 == [s EXCEPT !.loggers[service_name].level = DEBUG,
                        !.handlerLists[list] = AddHandler(ClearHandlers(@), console_handler),
                        !.nextId = @ + 1]
        got == _get_otlp_logging_handler(s1, service_name, otlp_level, otlp_endpoint,
                                         installed, ctorFails)
        attached ==
            [got.s EXCEPT
                !.OTLP_HANDLERS[service_name].filters = AddFilter(@, fid),
                !.handlerLists[list] =
                    AddHandler(@, [kind |-> "otlp", id |-> got.handler, key |-> service_name])]
        s2 == IF ~Truthy(otlp_endpoint) THEN Emit(s1, service_name, WARNING)
              ELSE IF got.raised THEN Emit(got.s, service_name, ERROR)
              ELSE IF got.handler # 0 THEN [s |-> attached, emitted |-> <<>>]
              ELSE [s |-> got.s, emitted |-> <<>>]
    IN [s |-> [s2.s EXCEPT !.loggers[service_name].propagate = FALSE],
        emitted |-> s2.emitted,
        handler |-> IF Truthy(otlp_endpoint) THEN got.handler ELSE 0,
        raised |-> Truthy(otlp_endpoint) /\ got.raised]

\* get_logger(): [s, emitted, ran_setup]
get_logger(s, settings, installed, ctorFails) ==
    IF NeedsSetup(s, settings.service_name)
    THEN LET r == setup_logging(s, settings.service_name, settings.log_console_level,
                                settings.log_otlp_level, settings.otlp_endpoint,
                                installed, ctorFails)
         IN [s |-> r.s, emitted |-> r.emitted, ran_setup |-> TRUE,
             handler |-> r.handler, raised |-> r.raised]
    ELSE [s |-> s, emitted |-> <<>>, ran_setup |-> FALSE, handler |-> 0, raised |-> FALSE]

\* (mutant) the external logger gets a copy of the list in its own list object
ShareHandlers_Copy(s, external_name, service_name) ==
    [s EXCEPT !.handlerLists[s.loggers[external_name].handlers] = Handlers(s, service_name)]

\* `external_logger.handlers = logger.handlers`: the attribute is bound to the
\* service logger's list object
ShareHandlers(s, external_name, service_name) ==
    [s EXCEPT !.loggers[external_name].handlers = s.loggers[service_name].handlers]

\* handle_external_dep_logger(name, level)
handle_external_dep_logger(s, settings, name, level, installed, ctorFails) ==
    LET g == get_logger(s, settings, installed, ctorFails) IN
    [s |-> [ShareHandlers(g.s, name, settings.service_name)
                EXCEPT !.loggers[name].level = LoggingAttr(level, WARNING)],
     emitted |-> g.emitted, ran_setup |-> g.ran_setup,
     handler |-> g.handler, raised |-> g.raised]

----------------------------------------------------------------------------
(* Spec: the Logger Assembler driven by its callers *)

\* the logging state held in the variables
Cur ==
    [loggers |-> loggers, handlerLists |-> handlerLists, OTLP_HANDLERS |-> OTLP_HANDLERS,
     unregistered |-> unregistered,
     pipelines |-> pipelines, logQueue |-> logQueue, nextId |-> nextId]

Store(s) ==
    /\ loggers' = s.loggers
    /\ handlerLists' = s.handlerLists
    /\ OTLP_HANDLERS' = s.OTLP_HANDLERS
    /\ unregistered' = s.unregistered
    /\ pipelines' = s.pipelines
    /\ logQueue' = s.logQueue
    /\ nextId' = s.nextId

NoOp ==
    [op |-> "none", name |-> None, console_level |-> None, otlp_level |-> None,
     endpoint |-> None, levelno |-> NOTSET, ran_setup |-> FALSE, handler |-> 0,
     raised |-> FALSE, emitted |-> <<>>]

\* the LogSettings the environment may give the process (log/config.py:11-14)
SettingsChoices ==
    [service_name : {"microservice"},
     log_console_level : {"ERROR"},
     log_otlp_level : {"INFO"},
     otlp_endpoint : {None, "http://a:4318"}]

\* the LogSettings of the application runs of SpecApp
AppSettingsChoices ==
    [service_name : {"microservice"},
     log_console_level : {"DEBUG", "ERROR"},
     log_otlp_level : {"INFO", "ERROR"},
     otlp_endpoint : {None, "http://a:4318"}]

\* a thread that is in neither get_logger() nor setup_logging()
IdleThread ==
    [pc |-> "idle", op |-> "none", console_level |-> None, otlp_level |-> None,
     endpoint |-> None, fid |-> 0, handler |-> 0]

\* the threads that call into the logging module (SpecThreads)
Threads == {1, 2}

\* the process before anything was logged or set up
FreshProcess ==
    /\ otel_installed \in BOOLEAN
    /\ loggers = FreshState.loggers
    /\ handlerLists = FreshState.handlerLists
    /\ OTLP_HANDLERS = FreshState.OTLP_HANDLERS
    /\ pipelines = FreshState.pipelines
    /\ logQueue = FreshState.logQueue
    /\ nextId = FreshState.nextId
    /\ unregistered = FreshState.unregistered
    /\ threads = [t \in Threads |-> IdleThread]
    /\ spanQueue = 0
    /\ phase = "import"
    /\ lastOp = NoOp

NotFormatted == [by |-> "none", raised |-> FALSE, text |-> <<>>]

IdleFormat == record = None /\ formatted = NotFormatted

IdlePong == pongRequest = <<>> /\ pongResponse = [status |-> 0, message |-> "", logged |-> <<>>]

Init ==
    /\ log_settings \in SettingsChoices
    /\ FreshProcess
    /\ IdleFormat
    /\ IdlePong

\* a setup may still create its handler and its pipeline
CanSetup == nextId + 1 <= MaxObjects

\* whether the exporter/provider constructors raise is open only when
\* _get_otlp_logging_handler gets as far as calling them
CtorOutcomes(name, ep) ==
    IF Truthy(ep) /\ otel_installed /\ name \notin DOMAIN OTLP_HANDLERS
    THEN BOOLEAN ELSE {FALSE}

\* a direct call of setup_logging
SetupLogging ==
    \E name \in ServiceNames, cl \in LevelNames, ol \in OtlpLevelNames,
       ep \in Endpoints :
      \E ctorFails \in CtorOutcomes(name, ep) :
        /\ CanSetup
        /\ LET r == setup_logging(Cur, name, cl, ol, ep, otel_installed, ctorFails) IN
            /\ Store(r.s)
            /\ lastOp' = [NoOp EXCEPT !.op = "setup_logging", !.name = name,
                                      !.console_level = cl, !.otlp_level = ol,
                                      !.endpoint = ep, !.ran_setup = TRUE,
                                      !.handler = r.handler, !.raised = r.raised,
                                      !.emitted = r.emitted]
        /\ UNCHANGED <<log_settings, otel_installed, spanQueue, phase, threads, fmtVars, pongVars>>

\* a call of get_logger()
GetLogger ==
    \E ctorFails \in CtorOutcomes(log_settings.service_name, log_settings.otlp_endpoint) :
        /\ CanSetup
        /\ LET r == get_logger(Cur, log_settings, otel_installed, ctorFails) IN
            /\ Store(r.s)
            /\ lastOp' = [NoOp EXCEPT !.op = "get_logger",
                                      !.name = log_settings.service_name,
                                      !.console_level =
                                          IF r.ran_setup THEN log_settings.log_console_level ELSE None,
                                      !.otlp_level =
                                          IF r.ran_setup THEN log_settings.log_otlp_level ELSE None,
                                      !.endpoint =
                                          IF r.ran_setup THEN log_settings.otlp_endpoint ELSE None,
                                      !.ran_setup = r.ran_setup,
                                      !.handler = r.handler, !.raised = r.raised,
                                      !.emitted = r.emitted]
        /\ UNCHANGED <<log_settings, otel_installed, spanQueue, phase, threads, fmtVars, pongVars>>

\* a call of handle_external_dep_logger(name, level)
HandleExternalDepLogger ==
    \E name \in ExternalNames, level \in {"WARNING", "info", "verbose"},
       ctorFails \in CtorOutcomes(log_settings.service_name, log_settings.otlp_endpoint) :
        /\ CanSetup
        /\ LET r == handle_external_dep_logger(Cur, log_settings, name, level,
                                               otel_installed, ctorFails) IN
            /\ Store(r.s)
            /\ lastOp' = [NoOp EXCEPT !.op = "handle_external_dep_logger",
                                      !.name = name, !.console_level = level,
                                      !.ran_setup = r.ran_setup,
                                      !.handler = r.handler, !.raised = r.raised,
                                      !.emitted = r.emitted]
        /\ UNCHANGED <<log_settings, otel_installed, spanQueue, phase, threads, fmtVars, pongVars>>

\* application or library code logs one record of level levelno through a
\* logger that has sinks
Log ==
    \E name \in LoggerNames, levelno \in Levels :
        /\ Handlers(Cur, name) # <<>>
        /\ \A k \in ServiceNames : logQueue[k] < MaxQueue
        /\ LET r == Emit(Cur, name, levelno) IN
            /\ Store(r.s)
            /\ lastOp' = [NoOp EXCEPT !.op = "log", !.name = name,
                                      !.levelno = levelno, !.emitted = r.emitted]
        /\ UNCHANGED <<log_settings, otel_installed, spanQueue, phase, threads, fmtVars, pongVars>>

\* the BatchLogRecordProcessor's worker exports what a pipeline has buffered
BackgroundExport ==
    \E k \in ServiceNames :
        /\ logQueue[k] > 0
        /\ logQueue' = [logQueue EXCEPT ![k] = 0]
        /\ lastOp' = [NoOp EXCEPT !.op = "export", !.name = k]
        /\ UNCHANGED <<log_settings, otel_installed, loggers, handlerLists, OTLP_HANDLERS,
                       pipelines, nextId, unregistered, spanQueue, phase, threads, fmtVars, pongVars>>

Next ==
    \/ SetupLogging
    \/ GetLogger
    \/ Log
    \/ BackgroundExport

Spec == Init /\ [][Next]_vars

----------------------------------------------------------------------------
(* Properties of the Logger Assembler and the Sink Registry (Spec) *)

ConsoleSinks(name) ==
    {i \in 1..Len(Handlers(Cur, name)) : Handlers(Cur, name)[i].kind = "console"}

RemoteSinks(name) ==
    {i \in 1..Len(Handlers(Cur, name)) : Handlers(Cur, name)[i].kind = "otlp"}

\* C1: after any sequence of setup_logging and get_logger calls for a service
\* name, executed one after another, the logger of that name has exactly one
\* console sink and at most one remote sink.
C1_OneConsoleAtMostOneRemote ==
    lastOp.op \in {"setup_logging", "get_logger"} =>
        /\ Cardinality(ConsoleSinks(lastOp.name)) = 1
        /\ Cardinality(RemoteSinks(lastOp.name)) <= 1

\* a second setup of a logger that already had a console and a remote sink
C1_Witness ==
    /\ lastOp.op = "setup_logging"
    /\ nextId = 4
    /\ Cardinality(RemoteSinks(lastOp.name)) = 1

\* C2: once the registry holds a handle for a service name, the entry is never
\* replaced or removed, no further pipeline is constructed for the name, and
\* every later setup with an endpoint gets that very handle back, whatever
\* endpoint or level it passes.
C2_RegistryIdempotentByName ==
    [][\A n \in DOMAIN OTLP_HANDLERS :
          /\ n \in DOMAIN OTLP_HANDLERS'
          /\ OTLP_HANDLERS'[n].id = OTLP_HANDLERS[n].id
          /\ OTLP_HANDLERS'[n].endpoint = OTLP_HANDLERS[n].endpoint
          /\ OTLP_HANDLERS'[n].resource = OTLP_HANDLERS[n].resource
          /\ OTLP_HANDLERS'[n].level = OTLP_HANDLERS[n].level
          /\ pipelines'[n] = pipelines[n]
          /\ (lastOp'.ran_setup /\ lastOp'.name = n /\ Truthy(lastOp'.endpoint))
                => lastOp'.handler = OTLP_HANDLERS[n].id]_vars

\* a setup passing another endpoint got the first endpoint's handle back
C2_Witness ==
    /\ lastOp.op = "setup_logging"
    /\ Truthy(lastOp.endpoint)
    /\ lastOp.name \in DOMAIN OTLP_HANDLERS
    /\ OTLP_HANDLERS[lastOp.name].endpoint # ExportUrl(lastOp.endpoint)
    /\ lastOp.handler = OTLP_HANDLERS[lastOp.name].id
    /\ pipelines[lastOp.name] = 1

\* C3: get_logger() runs setup_logging, with the levels and the endpoint of
\* the settings, exactly when the configured logger has no sinks; when the
\* logger has a sink, get_logger() leaves the logger, its sinks and the
\* registry as they are and emits nothing.
C3_GetLoggerFrame ==
    [][lastOp'.op = "get_logger" =>
          LET name == log_settings.service_name IN
          /\ lastOp'.name = name
          /\ lastOp'.ran_setup <=> (Handlers(Cur, name) = <<>>)
          /\ lastOp'.ran_setup =>
                /\ Len(handlerLists'[loggers'[name].handlers]) >= 1
                /\ handlerLists'[loggers'[name].handlers][1].kind = "console"
                /\ handlerLists'[loggers'[name].handlers][1].level =
                       LoggingAttr(log_settings.log_console_level, DEBUG)
                /\ (~Truthy(log_settings.otlp_endpoint))
                       => Len(handlerLists'[loggers'[name].handlers]) = 1
          /\ (Handlers(Cur, name) # <<>>) =>
                /\ UNCHANGED <<loggers, handlerLists, OTLP_HANDLERS, pipelines,
                               logQueue, nextId, unregistered>>
                /\ lastOp'.emitted = <<>>]_vars

\* get_logger() returned a logger that an earlier setup had given two sinks
C3_Witness ==
    /\ lastOp.op = "get_logger"
    /\ ~lastOp.ran_setup
    /\ Len(Handlers(Cur, lastOp.name)) = 2

\* the Log Record's ordered severity enum: DEBUG < INFO < WARNING < ERROR < CRITICAL
SeverityOrder == <<"DEBUG", "INFO", "WARNING", "ERROR", "CRITICAL">>

Rank(levelName) == CHOOSE i \in 1..Len(SeverityOrder) : SeverityOrder[i] = levelName

\* the record of a delivery was written by a console sink
WrittenToConsole(emitted) ==
    \E j \in 1..Len(emitted) : \E i \in 1..Len(emitted[j].sinks) :
        emitted[j].sinks[i].kind = "console" /\ emitted[j].sinks[i].written

AfterSetupWithoutEndpoint ==
    /\ lastOp.op = "setup_logging"
    /\ lastOp.endpoint = None
    /\ lastOp.console_level \in StdLevelNames

\* C4: after setup_logging(name, console_level, otlp_level, None) with one of
\* the five level names, the logger's threshold is DEBUG, it has no remote
\* sink, and a record of level L (the warning the setup logs itself, and the
\* next record logged) is written to the console exactly when L >= console_level.
C4_ConsoleThreshold ==
    /\ [](AfterSetupWithoutEndpoint =>
            /\ loggers[lastOp.name].level = DEBUG
            /\ RemoteSinks(lastOp.name) = {}
            /\ Len(lastOp.emitted) = 1
            /\ WrittenToConsole(lastOp.emitted) <=>
                   (Rank("WARNING") >= Rank(lastOp.console_level)))
    /\ [][(AfterSetupWithoutEndpoint /\ lastOp'.op = "log" /\ lastOp'.name = lastOp.name) =>
            (WrittenToConsole(lastOp'.emitted) <=>
                 (lastOp'.levelno \div 10 >= Rank(lastOp.console_level)))]_vars

\* a DEBUG record was logged, and not written, after a setup at INFO
C4_Witness ==
    /\ lastOp.op = "log"
    /\ lastOp.levelno = DEBUG
    /\ Len(lastOp.emitted) = 1
    /\ ~WrittenToConsole(lastOp.emitted)
    /\ Handlers(Cur, lastOp.name)[1].level = INFO
    /\ RemoteSinks(lastOp.name) = {}

\* the last operation ran setup_logging with an endpoint and got no handle
\* (a missing dependency, or a constructor that raised)
ConstructionFailed ==
    /\ lastOp.ran_setup
    /\ Truthy(lastOp.endpoint)
    /\ lastOp.handler = 0

RemoteExportDisabled ==
    /\ lastOp.ran_setup
    /\ ~Truthy(lastOp.endpoint)

LoggedAtLeast(emitted, levelno) ==
    \E j \in 1..Len(emitted) : emitted[j].levelno >= levelno

\* C7: when setup_logging is given an endpoint and no remote handle can be
\* built, it leaves the console sink as the logger's only sink, stores no
\* registry entry and has logged a warning (or worse) through the logger;
\* without an endpoint it logs the warning that remote export is disabled.
C7_FailureIsLogged ==
    /\ ConstructionFailed =>
          /\ Len(Handlers(Cur, lastOp.name)) = 1
          /\ Handlers(Cur, lastOp.name)[1].kind = "console"
          /\ lastOp.name \notin DOMAIN OTLP_HANDLERS
          /\ LoggedAtLeast(lastOp.emitted, WARNING)
    /\ RemoteExportDisabled => LoggedAtLeast(lastOp.emitted, WARNING)

\* the Trace-Context Enricher filters that a handler of the logger carries
EnricherCount(name, i) == Len(HandlerFilters(Cur, Handlers(Cur, name)[i]))

\* C10: every sink attached to a service logger carries the Trace-Context
\* Enricher exactly once, so a record is enriched once per sink.
C10_EnricherOncePerSink ==
    \A name \in ServiceNames : \A i \in 1..Len(Handlers(Cur, name)) :
        EnricherCount(name, i) = 1

\* the last operation was a direct setup_logging call that attached a remote
\* sink and named one of the five levels (in any spelling) as otlp_level
AttachedRemoteAtNamedLevel ==
    /\ lastOp.op = "setup_logging"
    /\ lastOp.handler # 0
    /\ Upper(lastOp.otlp_level) \in StdLevelNames

\* C11: after a setup_logging call that attaches a remote sink, the threshold
\* of that remote sink is the otlp_level argument of that very call, also when
\* an earlier setup of the same service name used another otlp_level.
C11_RemoteThresholdIsOtlpLevel ==
    AttachedRemoteAtNamedLevel =>
        \A i \in RemoteSinks(lastOp.name) :
            HandlerLevel(Cur, Handlers(Cur, lastOp.name)[i])
                = 10 * Rank(Upper(lastOp.otlp_level))

\* C12: whenever setup_logging has attached a remote sink, the formatter of
\* that sink is the JsonLineFormatter, so a record that reaches the remote
\* destination went through the JSON line formatter.
C12_RemoteFormatterIsJsonLine ==
    (lastOp.ran_setup /\ lastOp.handler # 0) =>
        \A i \in RemoteSinks(lastOp.name) :
            HandlerFormatter(Cur, Handlers(Cur, lastOp.name)[i]) = "JsonLineFormatter"

\* C13: every record emitted through a service logger from its first
\* setup_logging call on, the records setup_logging logs itself included,
\* is emitted while the logger's propagate flag is false.
C13_NeverPropagates ==
    lastOp.name \in ServiceNames =>
        \A j \in 1..Len(lastOp.emitted) : ~lastOp.emitted[j].propagated

----------------------------------------------------------------------------
(* SpecExternal: a third-party logger is unified with the service logger,   *)
(* and the service logger is set up again afterwards                        *)

\* the arguments of the later setup_logging calls
ReconfigureChoices ==
    [console_level : {"INFO"},
     otlp_level : {"error"},
     otlp_endpoint : {None, "http://a:4318"}]

\* setup_logging called again on the service logger of the settings
Reconfigure ==
    \E a \in ReconfigureChoices :
      \E ctorFails \in CtorOutcomes(log_settings.service_name, a.otlp_endpoint) :
        /\ CanSetup
        /\ LET name == log_settings.service_name
               r == setup_logging(Cur, name, a.console_level, a.otlp_level,
                                  a.otlp_endpoint, otel_installed, ctorFails)
           IN /\ Store(r.s)
              /\ lastOp' = [NoOp EXCEPT !.op = "setup_logging", !.name = name,
                                        !.console_level = a.console_level,
                                        !.otlp_level = a.otlp_level,
                                        !.endpoint = a.otlp_endpoint, !.ran_setup = TRUE,
                                        !.handler = r.handler, !.raised = r.raised,
                                        !.emitted = r.emitted]
        /\ UNCHANGED <<log_settings, otel_installed, spanQueue, phase, threads, fmtVars, pongVars>>

NextExternal ==
    \/ HandleExternalDepLogger
    \/ Reconfigure
    \/ Log
    \/ BackgroundExport

SpecExternal == Init /\ [][NextExternal]_vars

\* handle_external_dep_logger has been called for the external logger: only
\* that call gives an external logger a level of its own
Unified(external_name) == loggers[external_name].level # NOTSET

\* C14: once handle_external_dep_logger(name, level) has run, the external
\* logger's handlers attribute is the service logger's list object itself and
\* its level is the level named (WARNING when the name is no level); so in
\* every later state, also after setup_logging ran again on the service
\* logger, the external logger's sinks are the service logger's current sinks.
C14_ExternalSharesSinks ==
    /\ \A external_name \in ExternalNames :
          Unified(external_name) =>
              /\ loggers[external_name].handlers
                     = loggers[log_settings.service_name].handlers
              /\ Handlers(Cur, external_name) = Handlers(Cur, log_settings.service_name)
    /\ lastOp.op = "handle_external_dep_logger" =>
          loggers[lastOp.name].level =
              IF Upper(lastOp.console_level) \in StdLevelNames
              THEN 10 * Rank(Upper(lastOp.console_level))
              ELSE WARNING

\* the external logger was unified at level "info", the service logger was
\* then set up again with an endpoint, and the external logger has the new
\* console sink and the remote sink
C14_Witness ==
    /\ lastOp.op = "setup_logging"
    /\ loggers["uvicorn.error"].level = INFO
    /\ Len(Handlers(Cur, "uvicorn.error")) = 2
    /\ Handlers(Cur, "uvicorn.error")[1].id > 1
    /\ Handlers(Cur, "uvicorn.error")[2].kind = "otlp"

----------------------------------------------------------------------------
(* SpecThreads: two threads call get_logger() and setup_logging() for the   *)
(* service name of the settings.  logger.py takes no lock, so a thread can  *)
(* be preempted between any two of the steps below.                         *)

\* a thread may enter a call: every call in progress, and the new one, can
\* still create a console handler and a LoggingHandler
CanCall ==
    nextId + 2 * Cardinality({t \in Threads : threads[t].pc # "idle"}) + 1 <= MaxObjects

\* the thread's position and locals change, the other threads stay
Goto(t, pc, fid, handler) ==
    threads' = [threads EXCEPT ![t].pc = pc, ![t].fid = fid, ![t].handler = handler]

Return(t) == threads' = [threads EXCEPT ![t] = IdleThread]

Step(op, emitted) ==
    lastOp' = [NoOp EXCEPT !.op = op, !.name = log_settings.service_name,
                           !.emitted = emitted]

\* logger.py:10-26, get_logger() is entered
CallGetLogger ==
    \E t \in Threads :
        /\ threads[t].pc = "idle"
        /\ CanCall
        /\ threads' = [threads EXCEPT ![t] =
               [IdleThread EXCEPT !.pc = "check", !.op = "get_logger",
                                  !.console_level = log_settings.log_console_level,
                                  !.otlp_level = log_settings.log_otlp_level,
                                  !.endpoint = log_settings.otlp_endpoint]]
        /\ Step("call_get_logger", <<>>)
        /\ Store(Cur)
        /\ UNCHANGED <<log_settings, otel_installed, spanQueue, phase, fmtVars, pongVars>>

\* logger.py:53-80, setup_logging(...) is entered directly
CallSetupLogging ==
    \E t \in Threads, a \in ReconfigureChoices :
        /\ threads[t].pc = "idle"
        /\ CanCall
        /\ threads' = [threads EXCEPT ![t] =
               [IdleThread EXCEPT !.pc = "clear", !.op = "setup_logging",
                                  !.console_level = a.console_level,
                                  !.otlp_level = a.otlp_level,
                                  !.endpoint = a.otlp_endpoint]]
        /\ Step("call_setup_logging", <<>>)
        /\ Store(Cur)
        /\ UNCHANGED <<log_settings, otel_installed, spanQueue, phase, fmtVars, pongVars>>

\* logger.py:28, `if not logger.handlers:` and, with handlers, the return
CheckHandlers ==
    \E t \in Threads :
        /\ threads[t].pc = "check"
        /\ IF NeedsSetup(Cur, log_settings.service_name)
           THEN Goto(t, "clear", 0, 0)
           ELSE Return(t)
        /\ Step("check", <<>>)
        /\ Store(Cur)
        /\ UNCHANGED <<log_settings, otel_installed, spanQueue, phase, fmtVars, pongVars>>

\* logger.py:80-84, setLevel(DEBUG) and logger.handlers.clear()
ClearSinks ==
    \E t \in Threads :
        /\ threads[t].pc = "clear"
        /\ LET name == log_settings.service_name
               list == loggers[name].handlers
           IN Store([Cur EXCEPT !.loggers[name].level = DEBUG,
                                !.handlerLists[list] = ClearHandlers(@)])
        /\ Goto(t, "console", 0, 0)
        /\ Step("clear", <<>>)
        /\ UNCHANGED <<log_settings, otel_installed, spanQueue, phase, fmtVars, pongVars>>

\* logger.py:87-107, the console handler and the filter are created and the
\* handler is added; then the branch on the endpoint
AttachConsole ==
    \E t \in Threads :
        /\ threads[t].pc = "console"
        /\ LET name == log_settings.service_name
               list == loggers[name].handlers
               fid == nextId
               console_handler == [kind |-> "console",
                                   id |-> fid,
                                   level |-> ConsoleLevel(threads[t].console_level),
                                   formatter |-> "ColoredConsoleFormatter",
                                   filters |-> AddFilter(<<>>, fid)]
           IN /\ Store([Cur EXCEPT !.handlerLists[list] = AddHandler(@, console_handler),
                                   !.nextId = @ + 1])
              /\ Goto(t, IF Truthy(threads[t].endpoint) THEN "lookup" ELSE "warn", fid, 0)
        /\ Step("console", <<>>)
        /\ UNCHANGED <<log_settings, otel_installed, spanQueue, phase, fmtVars, pongVars>>

\* logger.py:129-138, the registry lookup and, on a miss, the imports
LookupRegistry ==
    \E t \in Threads :
        /\ threads[t].pc = "lookup"
        /\ LET name == log_settings.service_name IN
           IF InRegistry(Cur, name)
           THEN Goto(t, "attach", threads[t].fid, OTLP_HANDLERS[name].id)
           ELSE IF ~otel_installed
           THEN Goto(t, "propagate", threads[t].fid, 0)
           ELSE Goto(t, "construct", threads[t].fid, 0)
        /\ Step("lookup", <<>>)
        /\ Store(Cur)
        /\ UNCHANGED <<log_settings, otel_installed, spanQueue, phase, fmtVars, pongVars>>

\* logger.py:140-155, exporter, provider, processor and LoggingHandler are
\* constructed, or a constructor raises
ConstructHandle ==
    \E t \in Threads, ctorFails \in BOOLEAN :
        /\ threads[t].pc = "construct"
        /\ LET name == log_settings.service_name
               handler == [id |-> nextId,
                           endpoint |-> ExportUrl(threads[t].endpoint),
                           resource |-> name,
                           level |-> OtlpLevel(threads[t].otlp_level),
                           filters |-> <<>>,
                           formatter |-> None]
           IN IF ctorFails
              THEN /\ Store(Cur)
                   /\ Goto(t, "exception", threads[t].fid, 0)
              ELSE /\ Store([Cur EXCEPT !.unregistered = DictPut(@, handler.id, handler),
                                        !.pipelines[name] = @ + 1,
                                        !.nextId = @ + 1])
                   /\ Goto(t, "store", threads[t].fid, handler.id)
        /\ Step("construct", <<>>)
        /\ UNCHANGED <<log_settings, otel_installed, spanQueue, phase, fmtVars, pongVars>>

\* a dict without the key k
DictDel(d, k) == [x \in DOMAIN d \ {k} |-> d[x]]

\* logger.py:156, `_OTLP_HANDLERS[service_name] = handler`: the object that
\* the entry held before stays alive wherever it is referred to
StoreHandle ==
    \E t \in Threads :
        /\ threads[t].pc = "store"
        /\ LET name == log_settings.service_name
               handler == unregistered[threads[t].handler]
               replaced == IF InRegistry(Cur, name)
                           THEN DictPut(unregistered, OTLP_HANDLERS[name].id,
                                        OTLP_HANDLERS[name])
                           ELSE unregistered
           IN Store([Cur EXCEPT !.OTLP_HANDLERS = DictPut(@, name, handler),
                                !.unregistered = DictDel(replaced, handler.id)])
        /\ Goto(t, "attach", threads[t].fid, threads[t].handler)
        /\ Step("store", <<>>)
        /\ UNCHANGED <<log_settings, otel_installed, spanQueue, phase, fmtVars, pongVars>>

\* logger.py:110-112, the filter is added to the handler the thread holds
\* and the handler is added to the logger
AttachRemote ==
    \E t \in Threads :
        /\ threads[t].pc = "attach"
        /\ LET name == log_settings.service_name
               list == loggers[name].handlers
               id == threads[t].handler
               filtered ==
                   IF id \in DOMAIN unregistered
                   THEN [Cur EXCEPT !.unregistered[id].filters = AddFilter(@, threads[t].fid)]
                   ELSE [Cur EXCEPT !.OTLP_HANDLERS[name].filters =
                                        AddFilter(@, threads[t].fid)]
           IN Store([filtered EXCEPT !.handlerLists[list] =
                        AddHandler(@, [kind |-> "otlp", id |-> id, key |-> name])])
        /\ Goto(t, "propagate", threads[t].fid, threads[t].handler)
        /\ Step("attach", <<>>)
        /\ UNCHANGED <<log_settings, otel_installed, spanQueue, phase, fmtVars, pongVars>>

\* logger.py:113-117, logger.exception after a constructor raised, or
\* logger.warning when no endpoint was given
LogOutcome ==
    \E t \in Threads :
        /\ threads[t].pc \in {"exception", "warn"}
        /\ LET e == Emit(Cur, log_settings.service_name,
                         IF threads[t].pc = "exception" THEN ERROR ELSE WARNING)
           IN /\ Store(e.s)
              /\ Step(threads[t].pc, e.emitted)
        /\ Goto(t, "propagate", threads[t].fid, 0)
        /\ UNCHANGED <<log_settings, otel_installed, spanQueue, phase, fmtVars, pongVars>>

\* logger.py:120-122, logger.propagate = False and the return
DisablePropagation ==
    \E t \in Threads :
        /\ threads[t].pc = "propagate"
        /\ Store([Cur EXCEPT !.loggers[log_settings.service_name].propagate = FALSE])
        /\ Return(t)
        /\ Step("propagate", <<>>)
        /\ UNCHANGED <<log_settings, otel_installed, spanQueue, phase, fmtVars, pongVars>>

NextThreads ==
    \/ CallGetLogger
    \/ CallSetupLogging
    \/ CheckHandlers
    \/ ClearSinks
    \/ AttachConsole
    \/ LookupRegistry
    \/ ConstructHandle
    \/ StoreHandle
    \/ AttachRemote
    \/ LogOutcome
    \/ DisablePropagation

SpecThreads == Init /\ [][NextThreads]_vars

\* C15: when two threads run get_logger() / setup_logging() for the same
\* service name with their steps interleaved, the logger has at most one
\* console sink and at most one remote sink in every state, and at most one
\* export pipeline is ever constructed for the service name.
C15_ThreadSafeSetup ==
    \A name \in ServiceNames :
        /\ Cardinality(ConsoleSinks(name)) <= 1
        /\ Cardinality(RemoteSinks(name)) <= 1
        /\ pipelines[name] <= 1

----------------------------------------------------------------------------
(* SpecApp: the application of main.py, from import to the end of lifespan *)

\* main.py:44-53: the tracer provider gets a BatchSpanProcessor only when an
\* endpoint is configured (config.py and log/config.py read the same setting)
HasSpanProcessor == Truthy(log_settings.otlp_endpoint)

\* several log calls in sequence: [s, emitted]
RECURSIVE EmitAll(_, _, _)
EmitAll(s, name, levelnos) ==
    IF levelnos = <<>> THEN [s |-> s, emitted |-> <<>>]
    ELSE LET e == Emit(s, name, Head(levelnos))
             rest == EmitAll(e.s, name, Tail(levelnos))
         IN [s |-> rest.s, emitted |-> e.emitted \o rest.emitted]

InitApp ==
    /\ log_settings \in AppSettingsChoices
    /\ FreshProcess
    /\ IdleFormat
    /\ IdlePong

\* main.py:26-53, the module body: get_logger(), the uvicorn logger takes the
\* service logger's handlers, the tracer provider is set up and reported
ImportMain ==
    \E ctorFails \in CtorOutcomes(log_settings.service_name, log_settings.otlp_endpoint) :
        /\ phase = "import"
        /\ LET name == log_settings.service_name
               g == get_logger(Cur, log_settings, otel_installed, ctorFails)
               adopted == [g.s EXCEPT
                              !.loggers["uvicorn.error"].level = WARNING,
                              !.loggers["uvicorn.error"].handlers = g.s.loggers[name].handlers]
               e == Emit(adopted, name,
                         IF Truthy(log_settings.otlp_endpoint) THEN INFO ELSE WARNING)
           IN /\ Store(e.s)
              /\ lastOp' = [NoOp EXCEPT !.op = "import_main", !.name = name,
                                        !.ran_setup = g.ran_setup,
                                        !.console_level = log_settings.log_console_level,
                                        !.otlp_level = log_settings.log_otlp_level,
                                        !.endpoint = log_settings.otlp_endpoint,
                                        !.handler = g.handler, !.raised = g.raised,
                                        !.emitted = g.emitted \o e.emitted]
        /\ phase' = "loaded"
        /\ UNCHANGED <<log_settings, otel_installed, spanQueue, threads, fmtVars, pongVars>>

\* main.py:59-66, lifespan up to the yield
LifespanStartup ==
    /\ phase = "loaded"
    /\ LET e == Emit(Cur, log_settings.service_name, INFO) IN
        /\ Store(e.s)
        /\ lastOp' = [NoOp EXCEPT !.op = "lifespan_startup",
                                  !.name = log_settings.service_name,
                                  !.levelno = INFO, !.emitted = e.emitted]
    /\ phase' = "serving"
    /\ UNCHANGED <<log_settings, otel_installed, spanQueue, threads, fmtVars, pongVars>>

\* log_mw.py:13-48, LogMiddleware.dispatch around one instrumented request:
\* get_logger(), "HTTP request started", the request's span, "HTTP request completed"
Dispatch ==
    \E ctorFails \in CtorOutcomes(log_settings.service_name, log_settings.otlp_endpoint) :
        /\ phase = "serving"
        /\ \A k \in ServiceNames : logQueue[k] + 2 <= MaxBacklog
        /\ spanQueue + 1 <= MaxBacklog
        /\ LET name == log_settings.service_name
               g == get_logger(Cur, log_settings, otel_installed, ctorFails)
               e == EmitAll(g.s, name, <<INFO, INFO>>)
           IN /\ Store(e.s)
              /\ lastOp' = [NoOp EXCEPT !.op = "dispatch", !.name = name,
                                        !.levelno = INFO, !.ran_setup = g.ran_setup,
                                        !.emitted = g.emitted \o e.emitted]
        /\ spanQueue' = IF HasSpanProcessor THEN spanQueue + 1 ELSE spanQueue
        /\ UNCHANGED <<log_settings, otel_installed, phase, threads, fmtVars, pongVars>>

\* the BatchSpanProcessor's worker exports the buffered spans
SpanExport ==
    /\ spanQueue > 0
    /\ spanQueue' = 0
    /\ lastOp' = [NoOp EXCEPT !.op = "span_export"]
    /\ UNCHANGED <<log_settings, otel_installed, loggers, handlerLists, OTLP_HANDLERS,
                   pipelines, logQueue, nextId, unregistered, phase, threads, fmtVars, pongVars>>

\* main.py:67-72, lifespan after the yield: one more record, then
\* tracer_provider.force_flush()
LifespanShutdown ==
    /\ phase = "serving"
    /\ LET e == Emit(Cur, log_settings.service_name, INFO) IN
        /\ Store(e.s)
        /\ lastOp' = [NoOp EXCEPT !.op = "lifespan_shutdown",
                                  !.name = log_settings.service_name,
                                  !.levelno = INFO, !.emitted = e.emitted]
    /\ spanQueue' = 0
    /\ phase' = "stopped"
    /\ UNCHANGED <<log_settings, otel_installed, threads, fmtVars, pongVars>>

\* the exporters' workers run while the process lives
AppExport == phase # "stopped" /\ (BackgroundExport \/ SpanExport)

NextApp ==
    \/ ImportMain
    \/ LifespanStartup
    \/ Dispatch
    \/ AppExport
    \/ LifespanShutdown

SpecApp == InitApp /\ [][NextApp]_vars

\* C8: when the lifespan's shutdown phase is over, nothing that the remote
\* log sink accepted is still buffered in its batching pipeline: the shutdown
\* flushed it.
C8_ShutdownFlushesLogs ==
    phase = "stopped" => \A k \in ServiceNames : logQueue[k] = 0

----------------------------------------------------------------------------
(* SpecFormat: log records and the two formatters *)

\* Python values that reach a formatter: a string (with or without a raw
\* newline), a number, an object json cannot serialize (a set, say), and
\* mappings / sequences holding one value
StrVal(nl) == [t |-> "str", nl |-> nl, of |-> "text"]

IntVal == [t |-> "int", nl |-> FALSE, of |-> "int"]

ObjVal == [t |-> "obj", nl |-> FALSE, of |-> "obj"]

Atoms == {StrVal(FALSE), StrVal(TRUE), IntVal, ObjVal}

RECURSIVE Values(_)
Values(depth) ==
    IF depth = 0 THEN Atoms
    ELSE Values(depth - 1) \cup
         [t : {"dict", "list"}, v : Values(depth - 1)]

IsContainer(v) == v.t \in {"dict", "list"}

\* str(v): a str is itself, anything else its one-line text
StrOf(v) == IF v.t = "str" THEN v ELSE [t |-> "str", nl |-> FALSE, of |-> v.t]

\* whether json.dumps(v) succeeds
RECURSIVE Serializable(_)
Serializable(v) ==
    CASE v.t = "obj" -> FALSE
      [] IsContainer(v) -> Serializable(v.v)
      [] OTHER -> TRUE

Tok(kind) == [tok |-> kind, nl |-> FALSE, of |-> ""]

\* the text json.dumps writes for a serializable value, as tokens; a string
\* is written quoted with its newlines escaped
RECURSIVE Encode(_)
Encode(v) ==
    CASE v.t = "str" -> <<[tok |-> "string", nl |-> FALSE, of |-> v.of]>>
      [] v.t = "int" -> <<[tok |-> "number", nl |-> FALSE, of |-> "int"]>>
      [] v.t = "dict" -> <<Tok("{"), [tok |-> "string", nl |-> FALSE, of |-> "key"], Tok(":")>>
                            \o Encode(v.v) \o <<Tok("}")>>
      [] v.t = "list" -> <<Tok("[")>> \o Encode(v.v) \o <<Tok("]")>>

Raised == [raised |-> TRUE, text |-> <<>>]

\* json.dumps(v)
JsonDumps(v) ==
    IF Serializable(v) THEN [raised |-> FALSE, text |-> Encode(v)] ELSE Raised

\* json.dumps(payload) of a dict given as its items
RECURSIVE EncodeItems(_)
EncodeItems(items) ==
    IF items = <<>> THEN <<>>
    ELSE <<[tok |-> "string", nl |-> FALSE, of |-> items[1].k], Tok(":")>>
            \o Encode(items[1].v)
            \o (IF Len(items) > 1 THEN <<Tok(",")>> ELSE <<>>)
            \o EncodeItems(Tail(items))

JsonDumpsDict(items) ==
    IF \A i \in 1..Len(items) : Serializable(items[i].v)
    THEN [raised |-> FALSE, text |-> <<Tok("{")>> \o EncodeItems(items) \o <<Tok("}")>>]
    ELSE Raised

\* _STD_ATTRS: the attributes every LogRecord has (those the model gives a record)
STD_ATTRS == {"name", "levelname", "exc_info"}

ExtraKeys == <<"extra1", "extra2", "extra3">>

\* the log records: record.msg, record.exc_info and record.__dict__, which
\* holds the standard attributes and then the extra fields in insertion order
LogRecords ==
    UNION {
      [msg : {StrVal(FALSE), StrVal(TRUE)} \cup {v \in Values(MaxDepth) : IsContainer(v)},
       exc_info : {"none", "traceback", "unformattable"},
       extras : [1..n -> Values(MaxDepth)]]
      : n \in 0..MaxExtras }

RecordDict(rec) ==
    <<[k |-> "name", v |-> StrVal(FALSE)], [k |-> "levelname", v |-> StrVal(FALSE)]>>
    \o [i \in 1..Len(rec.extras) |-> [k |-> ExtraKeys[i], v |-> rec.extras[i]]]

\* the (key, value) pairs of record.__dict__ that are extra fields
ExtraFields(rec) ==
    SelectSeq(RecordDict(rec), LAMBDA kv : ~(kv.k \in STD_ATTRS \/ kv.k \in {"msg", "args"}))

\* the text of an exception: formatException, or traceback.format_exception
\* when that fails; either way several lines
ExceptionText == StrVal(TRUE)

\* json_line_formatter.py:48-60: an extra value is kept when json.dumps
\* accepts it and replaced by str(v) otherwise
JsonExtra(kv) ==
    IF JsonDumps(kv.v).raised THEN [k |-> kv.k, v |-> StrOf(kv.v)] ELSE kv

\* JsonLineFormatter.format(record)
JsonLineFormatter_format(rec) ==
    LET msg_val == IF IsContainer(rec.msg) THEN rec.msg ELSE StrOf(rec.msg)
        base == <<[k |-> "time", v |-> StrVal(FALSE)],
                  [k |-> "level", v |-> StrVal(FALSE)],
                  [k |-> "logger", v |-> StrVal(FALSE)],
                  [k |-> "message", v |-> msg_val]>>
        fields == ExtraFields(rec)
        extras == [i \in 1..Len(fields) |-> JsonExtra(fields[i])]
        err == IF rec.exc_info # "none" THEN <<[k |-> "err", v |-> ExceptionText]>> ELSE <<>>
        out == JsonDumpsDict(base \o extras \o err)
    IN [by |-> "json", raised |-> out.raised, text |-> out.text]

\* colored_console_formatter.py:71-83: one line per extra field
ConsoleFieldLine(kv, last) ==
    LET dumped == JsonDumps(kv.v) IN
    [tok |-> IF last THEN "corner" ELSE "branch",
     nl |-> IF IsContainer(kv.v) /\ ~dumped.raised THEN FALSE ELSE StrOf(kv.v).nl,
     of |-> IF IsContainer(kv.v) /\ ~dumped.raised THEN "json" ELSE StrOf(kv.v).of]

\* ColoredConsoleFormatter.format(record)
ColoredConsoleFormatter_format(rec) ==
    LET msg_val == IF IsContainer(rec.msg) THEN JsonDumps(rec.msg)
                   ELSE [raised |-> FALSE, text |-> <<StrOf(rec.msg)>>]
        fields == ExtraFields(rec)
        lines == <<[tok |-> "main", nl |-> (~IsContainer(rec.msg)) /\ rec.msg.nl, of |-> rec.msg.t]>>
                 \o [i \in 1..Len(fields) |-> ConsoleFieldLine(fields[i], i = Len(fields))]
                 \o (IF rec.exc_info # "none"
                     THEN <<[tok |-> "exception", nl |-> ExceptionText.nl, of |-> rec.exc_info]>>
                     ELSE <<>>)
    IN IF msg_val.raised
       THEN [by |-> "console", raised |-> TRUE, text |-> <<>>]
       ELSE [by |-> "console", raised |-> FALSE, text |-> lines]

IdleLog ==
    /\ log_settings = None /\ otel_installed = FALSE
    /\ loggers = FreshState.loggers /\ handlerLists = FreshState.handlerLists
    /\ OTLP_HANDLERS = FreshState.OTLP_HANDLERS /\ pipelines = FreshState.pipelines
    /\ logQueue = FreshState.logQueue /\ nextId = FreshState.nextId
    /\ unregistered = FreshState.unregistered
    /\ threads = [t \in Threads |-> IdleThread]
    /\ spanQueue = 0 /\ phase = "import" /\ lastOp = NoOp

InitFormat ==
    /\ record \in LogRecords
    /\ formatted = NotFormatted
    /\ IdleLog
    /\ IdlePong

\* the remote sink formats the record
FormatJson ==
    /\ formatted = NotFormatted
    /\ formatted' = JsonLineFormatter_format(record)
    /\ UNCHANGED <<record, logVars, pongVars>>

\* the console sink formats the record
FormatConsole ==
    /\ formatted = NotFormatted
    /\ formatted' = ColoredConsoleFormatter_format(record)
    /\ UNCHANGED <<record, logVars, pongVars>>

NextFormat == FormatJson \/ FormatConsole

SpecFormat == InitFormat /\ [][NextFormat]_vars

\* a JSON text: value := string | number | [ value,* ] | { string : value,* }.
\* ParseValue gives the position after the value that starts at i, 0 if none does
RECURSIVE ParseValue(_, _), ParseList(_, _), ParseMembers(_, _)
ParseValue(text, i) ==
    IF i = 0 \/ i > Len(text) THEN 0
    ELSE CASE text[i].tok \in {"string", "number"} -> i + 1
           [] text[i].tok = "[" -> ParseList(text, i + 1)
           [] text[i].tok = "{" -> ParseMembers(text, i + 1)
           [] OTHER -> 0

ParseList(text, i) ==
    LET j == ParseValue(text, i) IN
    IF j = 0 \/ j > Len(text) THEN 0
    ELSE CASE text[j].tok = "]" -> j + 1
           [] text[j].tok = "," -> ParseList(text, j + 1)
           [] OTHER -> 0

ParseMembers(text, i) ==
    IF i + 1 > Len(text) \/ text[i].tok # "string" \/ text[i + 1].tok # ":" THEN 0
    ELSE LET j == ParseValue(text, i + 2) IN
         IF j = 0 \/ j > Len(text) THEN 0
         ELSE CASE text[j].tok = "}" -> j + 1
                [] text[j].tok = "," -> ParseMembers(text, j + 1)
                [] OTHER -> 0

ParsesAsJson(text) == text # <<>> /\ ParseValue(text, 1) = Len(text) + 1

NoRawNewline(text) == \A i \in 1..Len(text) : ~text[i].nl

\* the member of a JSON object text that follows the key k is a string token
\* holding the string form of a value of type ty
MemberIsStringOf(text, k, ty) ==
    \E i \in 1..Len(text) :
        /\ text[i].tok = "string" /\ text[i].of = k
        /\ i + 2 <= Len(text)
        /\ text[i + 1].tok = ":"
        /\ text[i + 2].tok = "string" /\ text[i + 2].of = ty

\* C5: JsonLineFormatter.format never raises; its result is one valid JSON
\* document without a raw newline, in which every extra value json cannot
\* serialize appears as its string form.
C5_JsonFormatNeverRaises ==
    (formatted.by = "json") =>
        /\ ~formatted.raised
        /\ ParsesAsJson(formatted.text)
        /\ NoRawNewline(formatted.text)
        /\ \A i \in 1..Len(record.extras) :
              ~Serializable(record.extras[i]) =>
                  MemberIsStringOf(formatted.text, ExtraKeys[i], record.extras[i].t)

\* C6: ColoredConsoleFormatter.format never raises; it returns a block of
\* lines whatever the message, the extra values and the exception info are.
C6_ConsoleFormatNeverRaises ==
    (formatted.by = "console") =>
        /\ ~formatted.raised
        /\ Len(formatted.text) >= 1

----------------------------------------------------------------------------
(* SpecPong: POST /pong (api/pingpong/routes.py) *)

\* a message is a sequence of characters
Alphabet == {"P", "i", "I", "n", "g", " ", "x"}

Whitespace == {" "}

Messages == UNION {[1..n -> Alphabet] : n \in 0..MaxMsgLen}

\* str.lower(), character by character
LowerChar(c) ==
    CASE c = "P" -> "p"
      [] c = "I" -> "i"
      [] OTHER -> c

Lower(msg) == [i \in 1..Len(msg) |-> LowerChar(msg[i])]

\* str.lstrip() / str.rstrip() / str.strip()
RECURSIVE LStrip(_)
LStrip(msg) ==
    IF msg # <<>> /\ Head(msg) \in Whitespace THEN LStrip(Tail(msg)) ELSE msg

RECURSIVE RStrip(_)
RStrip(msg) ==
    IF msg # <<>> /\ msg[Len(msg)] \in Whitespace
    THEN RStrip(SubSeq(msg, 1, Len(msg) - 1)) ELSE msg

Strip(msg) == RStrip(LStrip(msg))

\* (mutant) the message is compared without stripping it
Normalized_NoStrip(msg) == Lower(msg)

\* request.message.strip().lower()
Normalized(msg) == Lower(Strip(msg))

MustBePing == "Message must be \"Ping\" to receive \"Pong\" response"

\* pong(request): the records it logs and the PongResponse it returns (a
\* returned model is sent with HTTP 200)
pong(message) ==
    IF Normalized(message) # <<"p", "i", "n", "g">>
    THEN [status |-> 200, message |-> MustBePing, logged |-> <<INFO, WARNING>>]
    ELSE [status |-> 200, message |-> "Pong", logged |-> <<INFO, INFO>>]

NoResponse == [status |-> 0, message |-> "", logged |-> <<>>]

InitPong ==
    /\ pongRequest \in Messages
    /\ pongResponse = NoResponse
    /\ IdleLog
    /\ record = None /\ formatted = NotFormatted

\* the route handles the request
Pong ==
    /\ pongResponse = NoResponse
    /\ pongResponse' = pong(pongRequest)
    /\ UNCHANGED <<pongRequest, logVars, fmtVars>>

NextPong == Pong

SpecPong == InitPong /\ [][NextPong]_vars

\* "ping" in any mix of cases, between any number of whitespace characters
Spaces(n) == [i \in 1..n |-> " "]

IsPaddedPing(msg) ==
    \E a \in 0..Len(msg), b \in 0..Len(msg) :
        /\ Len(msg) = a + 4 + b
        /\ SubSeq(msg, 1, a) = Spaces(a)
        /\ SubSeq(msg, a + 5, Len(msg)) = Spaces(b)
        /\ msg[a + 1] \in {"p", "P"}
        /\ msg[a + 2] \in {"i", "I"}
        /\ msg[a + 3] \in {"n", "N"}
        /\ msg[a + 4] \in {"g", "G"}

====
